---- MODULE Spec2Model ----
(***************************************************************************)
(* WELT2000 waypoint reader and converter (aerofiles/formats/welt2000.py). *)
(*                                                                         *)
(* A line is a sequence of one-character strings.  Python indexes from 0   *)
(* and slices half-open; At and Slice keep the source's column numbers.    *)
(* An optional value (Python's None or a value) is <<>> or <<v>>.          *)
(* A latitude or longitude is kept as a signed number of arc seconds       *)
(* (3600 times the degrees the code computes): for every digit group the   *)
(* float comparison 0 <= d + m/60. + s/3600. <= bound agrees with the      *)
(* comparison of d*3600 + m*60 + s with bound*3600.                        *)
(***************************************************************************)
EXTENDS Integers, Sequences, FiniteSets, TLC

VARIABLES
    line,   \* the line given to Reader.decode_waypoint
    pc,     \* how far the line has got: start, skipped, raised, decoded, converted
    old,    \* the record decode_waypoint returned
    err,    \* the message of the ParserError it raised
    new,    \* the waypoint Converter.convert_waypoint returned
    cls,    \* the class that is iterated: Reader or Converter
    file0,  \* the lines the line source held when the object was made
    fp,     \* self.fp: the lines the line source has not given out yet
    gen,    \* the generator __iter__ returned: none, open or closed
    out,    \* what the caller has been given so far
    last    \* how the caller's last call ended: iter, yield, raise, StopIteration

vars == <<line, pc, old, err, new, cls, file0, fp, gen, out, last>>

----------------------------------------------------------------------------
(* Characters and strings *)

None == <<>>

Some(v) == <<v>>

Digits == {"0", "1", "2", "3", "4", "5", "6", "7", "8", "9"}

Letters ==
    {"A", "B", "C", "D", "E", "F", "G", "H", "I", "J", "K", "L", "M",
     "N", "O", "P", "Q", "R", "S", "T", "U", "V", "W", "X", "Y", "Z",
     "a", "b", "c", "d", "e", "f", "g", "h", "i", "j", "k", "l", "m",
     "n", "o", "p", "q", "r", "s", "t", "u", "v", "w", "x", "y", "z"}

\* \s of the re module and the characters str.strip() removes
Whitespace == {" ", "\t", "\n", "\r"}

\* \w of the re module
IsWordChar(c) == c \in Digits \cup Letters \cup {"_"}

DigitVal(c) ==
    CASE c = "0" -> 0 [] c = "1" -> 1 [] c = "2" -> 2 [] c = "3" -> 3
      [] c = "4" -> 4 [] c = "5" -> 5 [] c = "6" -> 6 [] c = "7" -> 7
      [] c = "8" -> 8 [] c = "9" -> 9

\* line[k]
At(s, k) == s[k + 1]

\* line[a:b], clipped to the string as Python clips a slice
Slice(s, a, b) ==
    LET hi == IF b < Len(s) THEN b ELSE Len(s)
    IN  IF a >= hi THEN <<>> ELSE SubSeq(s, a + 1, hi)

RECURSIVE RStripChars(_, _)
\* s.rstrip(chars)
RStripChars(s, chars) ==
    IF s = <<>> THEN s
    ELSE IF s[Len(s)] \in chars THEN RStripChars(SubSeq(s, 1, Len(s) - 1), chars)
    ELSE s

RECURSIVE LStripChars(_, _)
\* s.lstrip(chars)
LStripChars(s, chars) ==
    IF s = <<>> THEN s
    ELSE IF s[1] \in chars THEN LStripChars(Tail(s), chars)
    ELSE s

\* s.strip()
Strip(s) == RStripChars(LStripChars(s, Whitespace), Whitespace)

\* s.rstrip()
RStrip(s) == RStripChars(s, Whitespace)

AllDigits(s) == \A i \in 1..Len(s) : s[i] \in Digits

RECURSIVE ParseInt(_)
\* int(s) of a non-empty string of decimal digits
ParseInt(s) ==
    IF s = <<>> THEN 0
    ELSE 10 * ParseInt(SubSeq(s, 1, Len(s) - 1)) + DigitVal(s[Len(s)])

\* the position of '$' in a pattern: the end of the string, or just before
\* a newline that ends it
DollarEnd(s) == IF s # <<>> /\ s[Len(s)] = "\n" THEN SubSeq(s, 1, Len(s) - 1) ELSE s

----------------------------------------------------------------------------
(* The patterns of the reader.  Each gives the match as an optional value:  *)
(* None when the pattern does not match, the groups the code reads when it *)
(* does.                                                                   *)

\* RE_LATITUDE = ^([NS])([\d]{2})([\d]{2})([\d]{2})$
RE_LATITUDE(s) ==
    IF Len(s) = 7 /\ s[1] \in {"N", "S"} /\ AllDigits(SubSeq(s, 2, 7))
    THEN Some(<<s[1], SubSeq(s, 2, 3), SubSeq(s, 4, 5), SubSeq(s, 6, 7)>>)
    ELSE None

\* RE_LONGITUDE = ^([EW])([\d]{3})([\d]{2})([\d]{2})$
RE_LONGITUDE(s) ==
    IF Len(s) = 8 /\ s[1] \in {"E", "W"} /\ AllDigits(SubSeq(s, 2, 8))
    THEN Some(<<s[1], SubSeq(s, 2, 4), SubSeq(s, 5, 6), SubSeq(s, 7, 8)>>)
    ELSE None

\* RE_ICAO = ^[\w\d]{4}$
RE_ICAO(s) == Len(s) = 4 /\ \A i \in 1..4 : IsWordChar(s[i])

\* RE_FIELD_NUMBER = ^\*FL([\d]+)$
RE_FIELD_NUMBER(s) ==
    LET t == DollarEnd(s)
    IN  IF Len(t) >= 4 /\ SubSeq(t, 1, 3) = <<"*", "F", "L">>
           /\ AllDigits(SubSeq(t, 4, Len(t)))
        THEN Some(SubSeq(t, 4, Len(t)))
        ELSE None

\* RE_RUNWAY_LENGTH = ^\s*([\d]+)\s*$
RE_RUNWAY_LENGTH(s) ==
    LET t == Strip(s)
    IN  IF t # <<>> /\ AllDigits(t) THEN Some(t) ELSE None

\* RE_RUNWAY_DIRECTION = ^\s*([\d]+)\s*$
RE_RUNWAY_DIRECTION(s) ==
    LET t == Strip(s)
    IN  IF t # <<>> /\ AllDigits(t) THEN Some(t) ELSE None

\* RE_FREQUENCY = ^(1[\d]{2})([\d]{2})$
RE_FREQUENCY(s) ==
    IF Len(s) = 5 /\ s[1] = "1" /\ AllDigits(s)
    THEN Some(<<SubSeq(s, 1, 3), SubSeq(s, 4, 5)>>)
    ELSE None

RECURSIVE LeadingDigits(_)
\* the longest prefix of decimal digits
LeadingDigits(s) ==
    IF s = <<>> \/ s[1] \notin Digits THEN <<>>
    ELSE <<s[1]>> \o LeadingDigits(Tail(s))

\* RE_ELEVATION = ^[\s]*(-?[\d]+), the group as a signed integer
RE_ELEVATION(s) ==
    LET t == LStripChars(s, Whitespace)
        neg == t # <<>> /\ t[1] = "-"
        d == LeadingDigits(IF neg THEN Tail(t) ELSE t)
    IN  IF d = <<>> THEN None
        ELSE Some(IF neg THEN 0 - ParseInt(d) ELSE ParseInt(d))

SURFACES(c) ==
    CASE c = "A" -> Some("asphalt")
      [] c = "C" -> Some("concrete")
      [] c = "L" -> Some("loam")
      [] c = "S" -> Some("sand")
      [] c = "Y" -> Some("clay")
      [] c = "G" -> Some("grass")
      [] c = "V" -> Some("gravel")
      [] c = "D" -> Some("dirt")
      [] c = "W" -> Some("meadow")
      [] OTHER -> None

----------------------------------------------------------------------------
(* Reader: the field decoders, on a stripped line of 64 characters *)

\* every character but a space taken for a marker
has_metadata_not_blank(l) == At(l, 23) # " "

has_metadata(l) == At(l, 23) = "#" \/ At(l, 23) = "*" \/ At(l, 23) = "?"

decode_shortform(l) == Slice(l, 0, 6)

decode_is_airfield(l) == At(l, 5) = "1"

decode_is_unclear(l) == At(l, 4) = "2"

decode_is_outlanding(l) == At(l, 5) = "2"

decode_shortform_zander(l) ==
    IF At(l, 6) = " " \/ At(l, 6) = "-"
    THEN RStrip(Slice(l, 7, 19))
    ELSE Slice(l, 7, 19) \o <<At(l, 6)>>

decode_text(l) ==
    IF ~has_metadata(l) THEN RStripChars(Slice(l, 7, 41), {"?", "!", " "})
    ELSE IF Slice(l, 20, 23) = <<"G", "L", "D">>
    THEN RStripChars(Slice(l, 7, 20), {"?", "!", " "})
    ELSE RStripChars(Slice(l, 7, 23), {"?", "!", " "})

decode_icao(l) ==
    IF At(l, 23) = "#" /\ At(l, 24) # " " /\ At(l, 27) # "?" /\ At(l, 27) # "!"
    THEN Some(RStrip(Slice(l, 24, 28)))
    ELSE None

decode_is_ulm(l) ==
    \/ Slice(l, 23, 27) = <<"*", "U", "L", "M">>
    \/ Slice(l, 23, 27) = <<"#", "U", "L", "M">>
    \/ Slice(l, 23, 28) = <<"#", " ", "U", "L", "M">>

decode_field_number(l) ==
    LET match == RE_FIELD_NUMBER(Slice(l, 23, 28))
    IN  IF match # None THEN Some(ParseInt(match[1])) ELSE None

decode_is_glidersite(l) ==
    \/ Slice(l, 23, 28) = <<"#", " ", "G", "L", "D">>
    \/ Slice(l, 23, 27) = <<"#", "G", "L", "D">>
    \/ Slice(l, 23, 27) = <<"*", "G", "L", "D">>
    \/ Slice(l, 19, 24) = <<"G", "L", "D", " ", "#">>
    \/ Slice(l, 20, 24) = <<"G", "L", "D", "#">>
    \/ Slice(l, 20, 24) = <<"G", "L", "D", "*">>

decode_runway_surface(l) ==
    IF has_metadata(l) THEN SURFACES(At(l, 28)) ELSE None

decode_runway_length(l) ==
    IF has_metadata(l)
    THEN LET match == RE_RUNWAY_LENGTH(Slice(l, 29, 32))
         IN  IF match # None THEN Some(ParseInt(match[1]) * 10) ELSE None
    ELSE None

\* the second direction appended without looking for it in the list
decode_runway_directions_twice(l) ==
    IF has_metadata(l)
    THEN LET m1 == RE_RUNWAY_DIRECTION(Slice(l, 32, 34))
             d1 == IF m1 # None THEN <<ParseInt(m1[1]) * 10>> ELSE <<>>
             m2 == RE_RUNWAY_DIRECTION(Slice(l, 34, 36))
             d2 == IF m2 # None THEN Append(d1, ParseInt(m2[1]) * 10) ELSE d1
         IN  IF d2 # <<>> THEN Some(d2) ELSE None
    ELSE None

\* the list of directions, or None for an empty list ("directions or None")
decode_runway_directions(l) ==
    IF has_metadata(l)
    THEN LET m1 == RE_RUNWAY_DIRECTION(Slice(l, 32, 34))
             d1 == IF m1 # None THEN <<ParseInt(m1[1]) * 10>> ELSE <<>>
             m2 == RE_RUNWAY_DIRECTION(Slice(l, 34, 36))
             d2 == IF m2 # None
                   THEN LET direction == ParseInt(m2[1]) * 10
                        IN  IF \E i \in 1..Len(d1) : d1[i] = direction
                            THEN d1 ELSE Append(d1, direction)
                   ELSE d1
         IN  IF d2 # <<>> THEN Some(d2) ELSE None
    ELSE None

\* the last digit inferred for a raw value ending in 2 only
decode_frequency_only_2(l) ==
    IF has_metadata(l)
    THEN LET match == RE_FREQUENCY(Slice(l, 36, 41))
         IN  IF match # None
             THEN LET frq == match[1][1] \o <<".">> \o match[1][2]
                  IN  Some(frq \o (IF frq[Len(frq)] = "2" THEN <<"5">> ELSE <<"0">>))
             ELSE None
    ELSE None

decode_frequency(l) ==
    IF has_metadata(l)
    THEN LET match == RE_FREQUENCY(Slice(l, 36, 41))
         IN  IF match # None
             THEN LET frq == match[1][1] \o <<".">> \o match[1][2]
                  IN  Some(frq \o (IF frq[Len(frq)] = "2" \/ frq[Len(frq)] = "7"
                                   THEN <<"5">> ELSE <<"0">>))
             ELSE None
    ELSE None

decode_elevation(l) == RE_ELEVATION(Slice(l, 41, 45))

decode_elevation_proved(l) == At(l, 41) = "0"

\* the magnitude in arc seconds of the groups of a coordinate match
Magnitude(g) == ParseInt(g[2]) * 3600 + ParseInt(g[3]) * 60 + ParseInt(g[4])

\* the bound taken one degree short
LatitudeLimit_short == 90 - 1

LatitudeLimit == 90

LongitudeLimit == 180

\* [ok |-> TRUE, val |-> arc seconds] or [ok |-> FALSE, msg |-> the ParserError]
decode_latitude(l) ==
    LET match == RE_LATITUDE(Slice(l, 45, 52))
    IN  IF match = None THEN [ok |-> FALSE, msg |-> "Reading latitude failed"]
        ELSE LET lat == Magnitude(match[1])
             IN  IF ~(0 <= lat /\ lat <= LatitudeLimit * 3600)
                 THEN [ok |-> FALSE, msg |-> "Latitude out of bounds"]
                 ELSE [ok |-> TRUE,
                       val |-> IF match[1][1] = "S" THEN 0 - lat ELSE lat]

decode_longitude(l) ==
    LET match == RE_LONGITUDE(Slice(l, 52, 60))
    IN  IF match = None THEN [ok |-> FALSE, msg |-> "Reading longitude failed"]
        ELSE LET lon == Magnitude(match[1])
             IN  IF ~(0 <= lon /\ lon <= LongitudeLimit * 3600)
                 THEN [ok |-> FALSE, msg |-> "Longitude out of bounds"]
                 ELSE [ok |-> TRUE,
                       val |-> IF match[1][1] = "W" THEN 0 - lon ELSE lon]

decode_ground_check_necessary(l) == \E i \in 1..Len(l) : l[i] = "?"

decode_better_coordinates(l) == At(l, 6) = "-"

decode_country(l) == Strip(Slice(l, 60, 62))

decode_year_code(l) == Strip(<<At(l, 62)>>)

decode_source_code(l) == Strip(<<At(l, 63)>>)

\* the length check off by one, as when the line end is counted
LineLength_counting_newline == 64 + 1

LineLength == 64

\* Reader.decode_waypoint: [kind |-> "skip"] for a blank or comment line,
\* [kind |-> "raise", msg |-> ...] for a ParserError, [kind |-> "ok", wp |-> ...]
\* for a record.  The dict is built in the order of the source, so a latitude
\* failure is raised before the longitude is looked at.
decode_waypoint(raw) ==
    LET l == Strip(raw)
    IN  IF l = <<>> \/ l[1] = "$" THEN [kind |-> "skip"]
        ELSE IF Len(l) # LineLength
        THEN [kind |-> "raise", msg |-> "Line length does not match 64"]
        ELSE LET lat == decode_latitude(l)
                 lon == decode_longitude(l)
             IN  IF ~lat.ok THEN [kind |-> "raise", msg |-> lat.msg]
                 ELSE IF ~lon.ok THEN [kind |-> "raise", msg |-> lon.msg]
                 ELSE [kind |-> "ok", wp |-> [
                     shortform |-> decode_shortform(l),
                     is_airfield |-> decode_is_airfield(l),
                     is_unclear |-> decode_is_unclear(l),
                     is_outlanding |-> decode_is_outlanding(l),
                     shortform_zander |-> decode_shortform_zander(l),
                     text |-> decode_text(l),
                     icao |-> decode_icao(l),
                     is_ulm |-> decode_is_ulm(l),
                     field_number |-> decode_field_number(l),
                     is_glidersite |-> decode_is_glidersite(l),
                     runway_surface |-> decode_runway_surface(l),
                     runway_length |-> decode_runway_length(l),
                     runway_directions |-> decode_runway_directions(l),
                     frequency |-> decode_frequency(l),
                     elevation |-> decode_elevation(l),
                     elevation_proved |-> decode_elevation_proved(l),
                     latitude |-> lat.val,
                     longitude |-> lon.val,
                     ground_check_necessary |-> decode_ground_check_necessary(l),
                     better_coordinates |-> decode_better_coordinates(l),
                     country |-> decode_country(l),
                     year_code |-> decode_year_code(l),
                     source_code |-> decode_source_code(l)]]

----------------------------------------------------------------------------
(* The classifier rules.  Every pattern but the anchored one begins and    *)
(* ends with \b and is made of word characters and single spaces, so a     *)
(* search matches exactly where maximal runs of word characters of the     *)
(* text, separated by one space, are the words of one alternative.  A rule *)
(* is its alternatives (each a sequence of words, optional groups written  *)
(* out) and the tags it adds.  kind "start" is the pattern anchored with ^,*)
(* kind "exit" is \bA[\d]+ B?AB[\d]*[abc]?\b and kind "cross" is           *)
(* \bA[\d]+XA[\d]+\b with the letter between the two road numbers.         *)

RE_CLASSIFIERS == <<
    [kind |-> "exit", phrases |-> {}, values |-> {"highway-exit"}],
    [kind |-> "cross", phrases |-> {<<<<"X">>>>}, values |-> {"highway-interchange"}],
    [kind |-> "cross", phrases |-> {<<<<"Y">>>>},
     values |-> {"highway-interchange", "y-interchange"}],
    [kind |-> "search",
     phrases |-> {<<<<"S", "T", "R">>>>},
     values |-> {"road"}],
    [kind |-> "search",
     phrases |-> {<<<<"S", "X">>>>},
     values |-> {"road-interchange"}],
    [kind |-> "search",
     phrases |-> {<<<<"S", "Y">>>>},
     values |-> {"road-interchange", "y-interchange"}],
    [kind |-> "search",
     phrases |-> {<<<<"E", "X">>>>},
     values |-> {"railway-interchange"}],
    [kind |-> "search",
     phrases |-> {<<<<"E", "Y">>>>},
     values |-> {"railway-interchange", "y-interchange"}],
    [kind |-> "search",
     phrases |-> {<<<<"T", "R">>>>},
     values |-> {"gas-station"}],
    [kind |-> "search",
     phrases |-> {<<<<"B", "F">>>>, <<<<"R", "S">>>>,
         <<<<"R", "A", "I", "L">>, <<"S", "T", "A", "T", "I", "O", "N">>>>,
         <<<<"R", "A", "I", "L", "W", "A", "Y">>, <<"S", "T", "A", "T", "I", "O", "N">>>>,
         <<<<"G", "A", "R", "E">>>>},
     values |-> {"railway-station"}],
    [kind |-> "search",
     phrases |-> {<<<<"B", "R">>>>, <<<<"B", "R", "I", "D", "G", "E">>>>,
         <<<<"V", "I", "A", "D", "U", "C", "T">>>>,
         <<<<"P", "O", "N", "T">>>>},
     values |-> {"bridge"}],
    [kind |-> "search",
     phrases |-> {<<<<"T", "V">>>>, <<<<"T", "U", "R", "M">>>>,
         <<<<"T", "W", "R">>>>, <<<<"T", "O", "W", "E", "R">>>>,
         <<<<"S", "C", "H", "O", "R", "N", "S", "T", "E", "I", "N">>>>},
     values |-> {"tower"}],
    [kind |-> "search",
     phrases |-> {<<<<"C", "H", "U", "R", "C", "H">>>>,
         <<<<"K", "I", "R", "C", "H", "E">>>>, <<<<"K", "E", "R", "K">>>>,
         <<<<"K", "I", "R", "K", "E">>>>,
         <<<<"E", "G", "L", "I", "S", "E">>>>,
         <<<<"T", "E", "M", "P", "L", "E">>>>,
         <<<<"T", "E", "M", "P", "L", "O", "M">>>>, <<<<"D", "O", "M">>>>,
         <<<<"K", "L", "O", "S", "T", "E", "R">>>>},
     values |-> {"church"}],
    [kind |-> "search",
     phrases |-> {<<<<"H", "A", "N", "G", "A", "R">>>>,
         <<<<"H", "A", "L", "L", "E">>>>},
     values |-> {"hangar"}],
    [kind |-> "search",
     phrases |-> {<<<<"C", "A", "S", "T", "L", "E">>>>,
         <<<<"B", "U", "R", "G">>>>,
         <<<<"S", "C", "H", "L", "O", "S", "S">>>>,
         <<<<"K", "O", "S", "T", "E", "L">>>>,
         <<<<"K", "O", "S", "T", "O", "L">>>>,
         <<<<"F", "E", "S", "T", "U", "N", "G">>>>},
     values |-> {"castle"}],
    [kind |-> "search",
     phrases |-> {<<<<"V", "I", "L", "L", "A", "G", "E">>>>},
     values |-> {"village"}],
    [kind |-> "search",
     phrases |-> {<<<<"T", "O", "P">>>>, <<<<"P", "E", "A", "K">>>>,
         <<<<"B", "E", "R", "G">>>>, <<<<"G", "I", "P", "F", "E", "L">>>>,
         <<<<"M", "O", "U", "N", "T", "A", "I", "N">>>>,
         <<<<"S", "P", "I", "T", "Z", "E">>>>,
         <<<<"S", "U", "M", "M", "I", "T">>>>},
     values |-> {"mountain-top"}],
    [kind |-> "start",
     phrases |-> {<<<<"M", "T">>>>, <<<<"M", "O", "U", "N", "T">>>>,
         <<<<"M", "O", "N", "T">>>>, <<<<"M", "O", "N", "T", "E">>>>},
     values |-> {"mountain"}],
    [kind |-> "search",
     phrases |-> {<<<<"C", "O", "L">>>>, <<<<"P", "A", "S", "S">>>>},
     values |-> {"mountain-pass"}],
    [kind |-> "search",
     phrases |-> {<<<<"K", "W">>>>, <<<<"K", "K", "W">>>>,
         <<<<"P", "O", "W", "E", "R">>, <<"P", "L", "A", "N", "T">>>>,
         <<<<"P", "O", "W", "E", "R">>, <<"S", "T">>>>,
         <<<<"P", "O", "W", "E", "R">>, <<"S", "T", "A">>>>,
         <<<<"P", "O", "W", "E", "R">>, <<"S", "T", "N">>>>,
         <<<<"P", "O", "W", "E", "R">>, <<"S", "T", "A", "T", "I", "O", "N">>>>},
     values |-> {"power-plant"}],
    [kind |-> "search",
     phrases |-> {<<<<"D", "A", "M">>>>, <<<<"D", "A", "M", "M">>>>,
         <<<<"S", "T", "A", "U", "D", "A", "M", "M">>>>,
         <<<<"S", "T", "A", "U", "M", "A", "U", "E", "R">>>>},
     values |-> {"dam"}],
    [kind |-> "search",
     phrases |-> {<<<<"S", "I", "L", "O">>>>},
     values |-> {"silo"}],
    [kind |-> "search",
     phrases |-> {<<<<"V", "U", "L", "C", "A", "N">>>>,
         <<<<"V", "U", "L", "K", "A", "N">>>>,
         <<<<"V", "O", "L", "C", "A", "N", "O">>>>},
     values |-> {"volcano"}],
    [kind |-> "search",
     phrases |-> {<<<<"L", "A", "K", "E">>>>, <<<<"L", "A", "C">>>>,
         <<<<"S", "E", "E">>>>, <<<<"S", "T", "A", "U", "S", "E", "E">>>>,
         <<<<"T", "E", "I", "C", "H">>>>},
     values |-> {"lake"}],
    [kind |-> "search",
     phrases |-> {<<<<"S", "E", "N", "D", "E", "R">>>>},
     values |-> {"sender"}],
    [kind |-> "search",
     phrases |-> {<<<<"V", "O", "R">>>>},
     values |-> {"vor"}],
    [kind |-> "search",
     phrases |-> {<<<<"N", "D", "B">>>>},
     values |-> {"ndb"}],
    [kind |-> "search",
     phrases |-> {<<<<"T", "U", "N", "N", "E", "L">>>>},
     values |-> {"tunnel"}],
    [kind |-> "search",
     phrases |-> {
         <<<<"P", "F", "L", "I", "C", "H", "T", "M", "E", "L", "D", "E", "P", "U", "N", "K", "T">>>>},
     values |-> {"reporting-point"}]>>

RECURSIVE Runs(_)
\* the maximal runs of word characters and of other characters of a text
Runs(s) ==
    IF s = <<>> THEN <<>>
    ELSE LET rest == Runs(Tail(s))
         IN  IF rest # <<>> /\ IsWordChar(rest[1][1]) = IsWordChar(s[1])
             THEN <<(<<s[1]>> \o rest[1])>> \o Tail(rest)
             ELSE <<(<<s[1]>>)>> \o rest

\* the words of an alternative stand at run i, one space between them
PhraseAt(runs, i, phrase) ==
    /\ i + 2 * (Len(phrase) - 1) <= Len(runs)
    /\ \A k \in 1..Len(phrase) : runs[i + 2 * (k - 1)] = phrase[k]
    /\ \A k \in 1..(Len(phrase) - 1) : runs[i + 2 * k - 1] = <<" ">>

\* A[\d]+ as a whole run
IsRoadNumber(r) == Len(r) >= 2 /\ r[1] = "A" /\ AllDigits(Tail(r))

\* B?AB[\d]*[abc]? as a whole run
IsExitName(r) ==
    LET t == IF r # <<>> /\ r[1] = "B" THEN Tail(r) ELSE r
        u == IF Len(t) >= 2 THEN SubSeq(t, 3, Len(t)) ELSE <<>>
        v == IF u # <<>> /\ u[Len(u)] \in {"a", "b", "c"}
             THEN SubSeq(u, 1, Len(u) - 1) ELSE u
    IN  /\ Len(t) >= 2
        /\ SubSeq(t, 1, 2) = <<"A", "B">>
        /\ AllDigits(v)

\* A[\d]+ c A[\d]+ as a whole run, c the letter X or Y
IsCrossing(r, c) ==
    \E i \in 3..(Len(r) - 2) :
        /\ r[i] = c
        /\ IsRoadNumber(SubSeq(r, 1, i - 1))
        /\ IsRoadNumber(SubSeq(r, i + 1, Len(r)))

\* regex.search(text) of a rule, runs the runs of the text
RuleMatches(rule, runs) ==
        CASE rule.kind = "search" ->
               \E i \in 1..Len(runs) : \E p \in rule.phrases : PhraseAt(runs, i, p)
          [] rule.kind = "start" ->
               runs # <<>> /\ \E p \in rule.phrases : PhraseAt(runs, 1, p)
          [] rule.kind = "exit" ->
               \E i \in 1..(Len(runs) - 2) :
                   /\ IsRoadNumber(runs[i])
                   /\ runs[i + 1] = <<" ">>
                   /\ IsExitName(runs[i + 2])
          [] rule.kind = "cross" ->
               \E i \in 1..Len(runs) : \E p \in rule.phrases :
                   IsCrossing(runs[i], p[1][1])

\* the tags of every rule that matches the text
Classify(text) ==
    LET runs == Runs(text)
    IN  UNION {RE_CLASSIFIERS[i].values :
                   i \in {j \in 1..Len(RE_CLASSIFIERS) :
                              RuleMatches(RE_CLASSIFIERS[j], runs)}}

----------------------------------------------------------------------------
(* Converter *)

\* Python's truth of an optional string held as a sequence, of an optional
\* number and of an optional name
TruthySeq(v) == v # None /\ v[1] # <<>>

TruthyInt(v) == v # None /\ v[1] # 0

TruthyStr(v) == v # None /\ v[1] # ""

Reciprocal == 180

FullCircle == 360

convert_icao(icao) ==
    IF TruthySeq(icao) /\ RE_ICAO(icao[1]) THEN icao ELSE None

\* the second direction compared with the first plus 180, not taken mod 360
convert_runways_no_wrap(surface, directions, length) ==
    LET first ==
            IF TruthyStr(surface) \/ TruthyInt(length) \/ TruthySeq(directions)
            THEN <<[surface |-> IF TruthyStr(surface) THEN surface ELSE None,
                    length |-> IF TruthyInt(length) THEN length ELSE None,
                    directions |->
                        IF TruthySeq(directions)
                        THEN IF Len(directions[1]) = 1
                             THEN Some(<<directions[1][1] % FullCircle>>)
                             ELSE Some(<<directions[1][1] % FullCircle,
                                         (directions[1][1] + Reciprocal) % FullCircle>>)
                        ELSE None]>>
            ELSE <<>>
        second ==
            IF /\ TruthySeq(directions)
               /\ Len(directions[1]) = 2
               /\ directions[1][1] + Reciprocal # directions[1][2]
            THEN <<[surface |-> None,
                    length |-> None,
                    directions |-> Some(<<directions[1][2] % FullCircle,
                                          (directions[1][2] + Reciprocal) % FullCircle>>)]>>
            ELSE <<>>
    IN  first \o second

\* A runway is a dict with the keys it was given; a key it lacks is None here.
convert_runways(surface, directions, length) ==
    LET first ==
            IF TruthyStr(surface) \/ TruthyInt(length) \/ TruthySeq(directions)
            THEN <<[surface |-> IF TruthyStr(surface) THEN surface ELSE None,
                    length |-> IF TruthyInt(length) THEN length ELSE None,
                    directions |->
                        IF TruthySeq(directions)
                        THEN IF Len(directions[1]) = 1
                             THEN Some(<<directions[1][1] % FullCircle>>)
                             ELSE Some(<<directions[1][1] % FullCircle,
                                         (directions[1][1] + Reciprocal) % FullCircle>>)
                        ELSE None]>>
            ELSE <<>>
        second ==
            IF /\ TruthySeq(directions)
               /\ Len(directions[1]) = 2
               /\ (directions[1][1] + Reciprocal) % FullCircle # directions[1][2]
            THEN <<[surface |-> None,
                    length |-> None,
                    directions |-> Some(<<directions[1][2] % FullCircle,
                                          (directions[1][2] + Reciprocal) % FullCircle>>)]>>
            ELSE <<>>
    IN  first \o second

convert_frequencies(frq) ==
    IF ~TruthySeq(frq) THEN <<>> ELSE <<[frequency |-> frq[1]]>>

\* an outlanding field given no tag
FlagClassifiers_airfield_only(o) ==
    (IF o.is_glidersite THEN {"glidersite"} ELSE {})
    \cup (IF o.is_ulm THEN {"ulm"} ELSE {})
    \cup (IF o.is_airfield THEN {"landable", "airfield"} ELSE {})

\* the tags added from the flags of the record, before the rules
FlagClassifiers(o) ==
    (IF o.is_glidersite THEN {"glidersite"} ELSE {})
    \cup (IF o.is_ulm THEN {"ulm"} ELSE {})
    \cup (IF o.is_airfield THEN {"landable", "airfield"} ELSE {})
    \cup (IF o.is_outlanding THEN {"landable"} ELSE {})

\* Converter.convert_waypoint: the waypoint dict, its keys the record's domain
convert_waypoint(o) ==
    LET flags == FlagClassifiers(o)
        landable == "landable" \in flags
        catalogued == landable /\ o.field_number # None
        base == [name |-> o.text,
                 shortname |-> o.shortform,
                 country |-> o.country,
                 description |-> None,
                 latitude |-> o.latitude,
                 longitude |-> o.longitude,
                 elevation |-> o.elevation,
                 classifiers |-> flags
                     \cup (IF catalogued THEN {"catalogued"} ELSE {})
                     \cup Classify(o.text)]
        land == [icao |-> convert_icao(o.icao),
                 runways |-> convert_runways(o.runway_surface,
                                             o.runway_directions,
                                             o.runway_length),
                 frequencies |-> convert_frequencies(o.frequency)]
        number == [field_number |-> o.field_number[1]]
    IN  IF ~landable THEN base
        ELSE IF catalogued THEN base @@ land @@ number
        ELSE base @@ land

----------------------------------------------------------------------------
(* Input lines.  A line is put together from its columns: the short name   *)
(* (0-5), column 6, the name (7-22), the metadata marker (23), the code    *)
(* (24-27), the surface (28), the runway length (29-31), the two runway    *)
(* directions (32-33, 34-35), the frequency (36-40), the elevation         *)
(* (41-44), the latitude (45-51), the longitude (52-59) and the country,   *)
(* year and source (60-63).                                                *)

MkLine(short, c6, name, marker, code, surf, len, d1, d2, frq, elev, lat, lon, tail) ==
    short \o <<c6>> \o name \o <<marker>> \o code \o <<surf>> \o len
          \o d1 \o d2 \o frq \o elev \o lat \o lon \o tail

Airfield == <<"A", "C", "H", "M", "E", "1">>

Outlanding == <<"A", "C", "H", "M", "2", "2">>

Landmark == <<"B", "R", "U", "E", "C", "0">>

Shorts == {Airfield, Outlanding, Landmark, <<"A", "C", "H", "M", "E", "3">>}

Name0 ==
    <<"A", "C", "H", "M", "E", "R", " ", " ", " ", " ", " ", " ", " ", " ", " ", " ">>

Code0 == <<"E", "D", "X", "A">>

Len0 == <<"0", "9", "4">>

Dir1 == <<"0", "7">>

Dir2 == <<"2", "5">>

Frq0 == <<"1", "2", "3", "4", "5">>

Elev0 == <<" ", "0", "5", "4">>

Lat0 == <<"N", "5", "2", "2", "2", "3", "5">>

Lon0 == <<"E", "0", "0", "7", "5", "4", "4", "8">>

Tail0 == <<"D", "E", "J", "5">>

\* a regular airfield record
Line0 ==
    MkLine(Airfield, " ", Name0, "#", Code0, "A", Len0, Dir1, Dir2,
           Frq0, Elev0, Lat0, Lon0, Tail0)

\* a regular record of a point that is no landing site
Line1 ==
    MkLine(Landmark, " ",
           <<"R", "H", "E", "I", "N", " ", "B", "R", " ", "W", "E", "S", "E", "L", " ", " ">>,
           " ", <<" ", " ", " ", " ">>, " ", <<" ", " ", " ">>, <<" ", " ">>, <<" ", " ">>,
           <<" ", " ", " ", " ", " ">>, <<" ", " ", "2", "0">>,
           <<"N", "5", "1", "3", "9", "1", "2">>,
           <<"E", "0", "0", "6", "3", "6", "5", "5">>, Tail0)

\* the airfield record with a latitude one second past the pole
LineBadLat ==
    MkLine(Airfield, " ", Name0, "#", Code0, "A", Len0, Dir1, Dir2, Frq0, Elev0,
           <<"N", "9", "0", "0", "0", "0", "1">>, Lon0, Tail0)

Names ==
    {<<"A", "C", "H", "M", "E", "R", " ", " ", " ", " ", " ", " ", " ", " ", " ", " ">>,
     <<"A", "7", " ", "A", "B", "1", "2", "a", " ", " ", " ", " ", " ", " ", " ", " ">>,
     <<"A", "7", " ", "B", "A", "B", "3", " ", " ", " ", " ", " ", " ", " ", " ", " ">>,
     <<"A", "1", "X", "A", "5", " ", "K", "R", "E", "U", "Z", " ", " ", " ", " ", " ">>,
     <<"A", "3", "Y", "A", "8", " ", " ", " ", " ", " ", " ", " ", " ", " ", " ", " ">>,
     <<"H", "A", "U", "P", "T", " ", "S", "T", "R", " ", " ", " ", " ", " ", " ", " ">>,
     <<"S", "X", " ", "N", "O", "R", "D", " ", " ", " ", " ", " ", " ", " ", " ", " ">>,
     <<"S", "Y", " ", "S", "U", "E", "D", " ", " ", " ", " ", " ", " ", " ", " ", " ">>,
     <<"E", "X", " ", "O", "S", "T", " ", " ", " ", " ", " ", " ", " ", " ", " ", " ">>,
     <<"E", "Y", " ", "W", "E", "S", "T", " ", " ", " ", " ", " ", " ", " ", " ", " ">>,
     <<"T", "R", " ", "R", "A", "S", "T", " ", " ", " ", " ", " ", " ", " ", " ", " ">>,
     <<"R", "A", "I", "L", " ", "S", "T", "A", "T", "I", "O", "N", " ", " ", " ", " ">>,
     <<"B", "F", " ", "M", "I", "T", "T", "E", " ", " ", " ", " ", " ", " ", " ", " ">>,
     <<"R", "H", "E", "I", "N", " ", "B", "R", " ", " ", " ", " ", " ", " ", " ", " ">>,
     <<"T", "V", " ", "T", "U", "R", "M", " ", " ", " ", " ", " ", " ", " ", " ", " ">>,
     <<"D", "O", "M", " ", "K", "I", "R", "C", "H", "E", " ", " ", " ", " ", " ", " ">>,
     <<"H", "A", "L", "L", "E", " ", "H", "A", "N", "G", "A", "R", " ", " ", " ", " ">>,
     <<"B", "U", "R", "G", " ", "S", "C", "H", "L", "O", "S", "S", " ", " ", " ", " ">>,
     <<"V", "I", "L", "L", "A", "G", "E", " ", " ", " ", " ", " ", " ", " ", " ", " ">>,
     <<"B", "R", "O", "C", "K", "E", "N", " ", "B", "E", "R", "G", " ", " ", " ", " ">>,
     <<"M", "O", "N", "T", "E", " ", "R", "O", "S", "A", " ", " ", " ", " ", " ", " ">>,
     <<"M", "T", " ", "B", "L", "A", "N", "C", " ", "T", "O", "P", " ", " ", " ", " ">>,
     <<"C", "O", "L", " ", "P", "A", "S", "S", " ", " ", " ", " ", " ", " ", " ", " ">>,
     <<"P", "O", "W", "E", "R", " ", "S", "T", "A", "T", "I", "O", "N", " ", " ", " ">>,
     <<"K", "K", "W", " ", "S", "T", "A", "U", "D", "A", "M", "M", " ", " ", " ", " ">>,
     <<"S", "I", "L", "O", " ", " ", " ", " ", " ", " ", " ", " ", " ", " ", " ", " ">>,
     <<"V", "U", "L", "K", "A", "N", " ", " ", " ", " ", " ", " ", " ", " ", " ", " ">>,
     <<"S", "T", "A", "U", "S", "E", "E", " ", "L", "A", "C", " ", " ", " ", " ", " ">>,
     <<"S", "E", "N", "D", "E", "R", " ", "V", "O", "R", " ", " ", " ", " ", " ", " ">>,
     <<"N", "D", "B", " ", "T", "U", "N", "N", "E", "L", " ", " ", " ", " ", " ", " ">>,
     <<"P", "F", "L", "I", "C", "H", "T", "M", "E", "L", "D", "E", "P", "U", "N", "K">>,
     <<"L", "A", "N", "D", "A", "B", "L", "E", " ", "A", "I", "R", "F", "I", "E", "L">>,
     <<"l", "a", "n", "d", "a", "b", "l", "e", " ", "a", "i", "r", "f", "o", "l", "d">>,
     <<"B", "E", "R", "G", "H", "E", "I", "M", " ", " ", " ", " ", " ", " ", " ", " ">>,
     <<"P", "A", "S", "S", "A", "U", " ", "K", "W", "!", " ", " ", " ", " ", " ", " ">>,
     <<"B", "R", "I", "D", "G", "E", "?", " ", " ", " ", " ", " ", " ", " ", " ", " ">>}

\* the contents of a direction column: a digit or a space after a tens digit
\* that covers the headings up to 390 and those from 900, or after a space
DirectionFields ==
    {<<a, b>> : a \in {"0", "1", "2", "3", "9", " "}, b \in Digits \cup {" "}}

DirectionLines ==
    {MkLine(Airfield, " ", Name0, "#", Code0, "A", Len0, d1, d2,
            Frq0, Elev0, Lat0, Lon0, Tail0) :
        d1 \in DirectionFields, d2 \in DirectionFields}

RunwayLines ==
    {MkLine(short, " ", Name0, marker, Code0, surf, len, d[1], d[2],
            Frq0, Elev0, Lat0, Lon0, Tail0) :
        short \in {Airfield, Outlanding, Landmark},
        marker \in {"#", "*", " "},
        surf \in {"A", "G", " ", "X"},
        len \in
            {<<"1", "0", "0">>, <<"0", "0", "0">>, <<" ", " ", " ">>,
             <<" ", "5", "0">>, <<"5", " ", " ">>, <<" ", "0", " ">>,
             <<"1", "X", "0">>, <<"-", "1", "0">>},
        d \in {<<<<" ", " ">>, <<" ", " ">>>>, <<<<"0", "9">>, <<"2", "7">>>>, <<<<"0", "0">>, <<" ", " ">>>>,
               <<<<"0", "9">>, <<"1", "8">>>>, <<<<"X", "X">>, <<"1", "X">>>>}}

FrequencyLines ==
    {MkLine(Airfield, " ", Name0, marker, Code0, "A", Len0, Dir1, Dir2,
            <<f1, f2, f3, f4, f5>>, Elev0, Lat0, Lon0, Tail0) :
        marker \in {"#", "?", " "},
        f1 \in {"1", "0"},
        f2 \in {"2", "3"},
        f3 \in {"3", "."},
        f4 \in {"0", "2", "5", "7"},
        f5 \in Digits \cup {" "}}

LatParts ==
    {<<h>> \o d \o m \o sec :
        h \in {"N", "S", "X"},
        d \in
            {<<"0", "0">>, <<"4", "7">>, <<"8", "9">>, <<"9", "0">>,
             <<"9", "1">>, <<"9", "9">>, <<"4", "X">>},
        m \in {<<"0", "0">>, <<"5", "9">>, <<"6", "0">>, <<"9", "9">>},
        sec \in {<<"0", "0">>, <<"0", "1">>, <<"6", "0">>, <<"9", "9">>}}

LonParts ==
    {<<h>> \o d \o m \o sec :
        h \in {"E", "W", "N"},
        d \in
            {<<"0", "0", "0">>, <<"0", "0", "7">>, <<"1", "7", "9">>,
             <<"1", "8", "0">>, <<"1", "8", "1">>, <<"9", "9", "9">>},
        m \in {<<"0", "0">>, <<"5", "9">>, <<"6", "0">>, <<"9", "9">>},
        sec \in {<<"0", "0">>, <<"0", "1">>, <<"6", "0">>, <<"9", "9">>}}

CoordinateLines ==
    {MkLine(Airfield, " ", Name0, "#", Code0, "A", Len0, Dir1, Dir2,
            Frq0, Elev0, lat, lon, Tail0) :
        lat \in LatParts, lon \in {Lon0, <<"0", "7", "E", "0", "5", "4", "4", "8">>}}
    \cup
    {MkLine(Airfield, " ", Name0, "#", Code0, "A", Len0, Dir1, Dir2,
            Frq0, Elev0, lat, lon, Tail0) :
        lat \in {Lat0, <<"S", "9", "0", "0", "0", "0", "0">>}, lon \in LonParts}

\* good coordinates with the other columns malformed or blank
AnomalyLines ==
    {MkLine(Airfield, c6, Name0, marker, code, surf, f[1], f[2], f[2], f[3],
            elev, Lat0, Lon0, tail) :
        c6 \in {" ", "2"},
        marker \in {"#", "*"},
        code \in
            {<<"E", "D", "X", "A">>, <<"E", "D", "-", "A">>,
             <<"F", "L", "?", "?">>, <<" ", " ", " ", " ">>},
        surf \in {"A", "?"},
        f \in {<<Len0, Dir1, Frq0>>,
               <<<<"X", "9", " ">>, <<"7", "X">>, <<"1", "2", "3", "4", " ">>>>},
        elev \in
            {<<" ", "0", "5", "4">>, <<"-", " ", " ", "5">>,
             <<" ", " ", "-", "5">>, <<"X", "X", "X", "X">>,
             <<" ", " ", " ", " ">>, <<"0", "0", "4", "5">>,
             <<"-", "9", "9", "9">>, <<"1", "2", " ", "4">>},
        tail \in {Tail0, <<" ", " ", "?", "5">>}}

MetadataLines ==
    {MkLine(short, " ", SubSeq(Name0, 1, 12) \o tag, marker, code, surf, Len0,
            Dir1, Dir2, Frq0, Elev0, Lat0, Lon0, Tail0) :
        short \in {Airfield, Landmark},
        tag \in
            {<<" ", " ", " ", " ">>, <<"G", "L", "D", " ">>,
             <<" ", "G", "L", "D">>, <<"R", "G", " ", " ">>},
        marker \in {" ", "A", "-", "0", "#", "*", "?"},
        code \in
            {<<"E", "D", "X", "A">>, <<"U", "L", "M", " ">>,
             <<" ", "U", "L", "M">>, <<"G", "L", "D", " ">>,
             <<" ", "G", "L", "D">>, <<"F", "L", "1", "2">>,
             <<"F", "L", " ", "1">>, <<"F", "L", "1", " ">>,
             <<" ", " ", " ", " ">>, <<"E", "D", "?", "!">>,
             <<"E", "D", "!", " ">>, <<"E", "_", "1", "a">>},
        surf \in {"A", "M"}}

TextLines ==
    {MkLine(short, " ", name, marker, Code0, "A", Len0, Dir1, Dir2,
            Frq0, Elev0, Lat0, Lon0, Tail0) :
        short \in Shorts, name \in Names, marker \in {"#", "*", " "}}

\* how far a line's length is taken from 64 on either side
MaxExtra == 2

RECURSIVE Fill(_, _)
\* n times the character c
Fill(c, n) == IF n = 0 THEN <<>> ELSE <<c>> \o Fill(c, n - 1)

\* lines as a file gives them: other lengths, blank and comment lines, and
\* white space around them
LengthLines ==
    {pre \o body \o post :
        pre \in {<<>>, <<" ">>, <<"\t", " ">>},
        post \in {<<>>, <<"\n">>, <<"\r", "\n">>, <<" ", "\n">>},
        body \in {SubSeq(Line0, 1, n) : n \in {0, 1, 23, 24} \cup ((64 - MaxExtra)..64)}
            \cup {Line0 \o Fill(c, n) : c \in {"X", "5"}, n \in 1..MaxExtra}
            \cup {<<"$">> \o SubSeq(Line0, 1, n) : n \in {0, 5} \cup ((63 - MaxExtra)..64)}
            \cup {SubSeq(Line0, 1, 63) \o <<" ">>, <<" ">> \o SubSeq(Line0, 2, 64),
                  <<" ", "$">> \o SubSeq(Line0, 3, 64),
                  LineBadLat, SubSeq(LineBadLat, 1, 63), LineBadLat \o <<"5">>}}

Lines ==
    DirectionLines \cup RunwayLines \cup FrequencyLines \cup CoordinateLines
        \cup AnomalyLines \cup MetadataLines \cup TextLines \cup LengthLines

----------------------------------------------------------------------------
(* Decoding and converting one line *)

Init ==
    /\ line \in Lines
    /\ pc = "start"
    /\ old = None
    /\ err = None
    /\ new = None
    /\ cls = "none"
    /\ file0 = <<>>
    /\ fp = <<>>
    /\ gen = "none"
    /\ out = <<>>
    /\ last = "none"

\* old = Reader.decode_waypoint(line)
Decode ==
    /\ pc = "start"
    /\ LET r == decode_waypoint(line)
       IN  /\ pc' = IF r.kind = "ok" THEN "decoded"
                    ELSE IF r.kind = "raise" THEN "raised" ELSE "skipped"
           /\ old' = IF r.kind = "ok" THEN Some(r.wp) ELSE None
           /\ err' = IF r.kind = "raise" THEN Some(r.msg) ELSE None
    /\ UNCHANGED <<line, new, cls, file0, fp, gen, out, last>>

\* new = Converter.convert_waypoint(old)
Convert ==
    /\ pc = "decoded"
    /\ new' = Some(convert_waypoint(old[1]))
    /\ pc' = "converted"
    /\ UNCHANGED <<line, old, err, cls, file0, fp, gen, out, last>>

Next == Decode \/ Convert

Spec == Init /\ [][Next]_vars

----------------------------------------------------------------------------
(* Properties of decoding and converting one line *)

\* the stripped line is neither blank nor a comment
IsRecordLine(raw) == Strip(raw) # <<>> /\ Strip(raw)[1] # "$"

\* the line has been given to decode_waypoint
Decoded == pc \in {"skipped", "raised", "decoded", "converted"}

\* decode_waypoint returned a record
HasRecord == pc \in {"decoded", "converted"}

LengthError == Some("Line length does not match 64")

\* C1: a line that after stripping is neither blank nor a comment fails with
\* the line-length error and gives no record when its stripped length is not
\* 64, whatever its columns hold; when its stripped length is 64 the
\* line-length error is not raised.
C1_LineLength ==
    Decoded /\ IsRecordLine(line) =>
        /\ Len(Strip(line)) # 64 => pc = "raised" /\ err = LengthError /\ old = None
        /\ Len(Strip(line)) = 64 => err # LengthError

\* a line of 64 characters whose last column is blank is 63 characters long
\* once stripped, and is refused
C1_Witness ==
    /\ pc = "raised"
    /\ err = LengthError
    /\ Len(line) = 64
    /\ Len(Strip(line)) = 63

\* the value of two or three digit characters
DigitsValue(f) ==
    IF Len(f) = 2 THEN 10 * DigitVal(f[1]) + DigitVal(f[2])
    ELSE 100 * DigitVal(f[1]) + 10 * DigitVal(f[2]) + DigitVal(f[3])

\* columns 45-52 are N or S and three groups of two digits
LatitudeShape(l) ==
    /\ l[46] \in {"N", "S"}
    /\ \A i \in 47..52 : l[i] \in Digits

\* columns 52-60 are E or W and groups of three, two and two digits
LongitudeShape(l) ==
    /\ l[53] \in {"E", "W"}
    /\ \A i \in 54..60 : l[i] \in Digits

LatitudeSeconds(l) ==
    DigitsValue(SubSeq(l, 47, 48)) * 3600 + DigitsValue(SubSeq(l, 49, 50)) * 60
        + DigitsValue(SubSeq(l, 51, 52))

LongitudeSeconds(l) ==
    DigitsValue(SubSeq(l, 54, 56)) * 3600 + DigitsValue(SubSeq(l, 57, 58)) * 60
        + DigitsValue(SubSeq(l, 59, 60))

\* the coordinates of the line are refused
BadCoordinates(l) ==
    \/ ~LatitudeShape(l)
    \/ ~LongitudeShape(l)
    \/ LatitudeSeconds(l) > 90 * 3600
    \/ LongitudeSeconds(l) > 180 * 3600

SurfaceCodes == {"A", "C", "L", "S", "Y", "G", "V", "D", "W"}

FrequencyCase ==
    /\ HasRecord
    /\ Strip(line)[24] \in {"#", "*", "?"}
    /\ Strip(line)[37] = "1"
    /\ \A i \in 38..41 : Strip(line)[i] \in Digits

\* C3 as the specification states it: the frequency is DDD.DD, three digits,
\* a dot and two digits, the last of them forced to 0 or 5.
C3_TwoFractionalDigits ==
    FrequencyCase =>
        LET l == Strip(line)
            frq == old[1].frequency
        IN  /\ frq # None
            /\ Len(frq[1]) = 6
            /\ SubSeq(frq[1], 1, 4) = <<l[37], l[38], l[39], ".">>
            /\ frq[1][6] = IF l[41] \in {"2", "7"} THEN "5"
                           ELSE IF l[41] = "5" THEN "5" ELSE "0"

\* C3 as the code has it: the frequency is DDD.DDD, the three integer digits,
\* a dot, the two fractional digits of the line and a third fractional digit
\* that is 5 when the line's last digit is 2 or 7 and 0 otherwise.
C3_ThreeFractionalDigits ==
    FrequencyCase =>
        LET l == Strip(line)
        IN  old[1].frequency =
                Some(<<l[37], l[38], l[39], ".", l[40], l[41],
                       IF l[41] \in {"2", "7"} THEN "5" ELSE "0">>)

\* the digits 12322 are decoded to 123.225
C3_Witness ==
    /\ HasRecord
    /\ SubSeq(Strip(line), 37, 41) = <<"1", "2", "3", "2", "2">>
    /\ old[1].frequency = Some(<<"1", "2", "3", ".", "2", "2", "5">>)

\* the waypoint has been built
Converted == pc = "converted"

LandableKeys == {"icao", "runways", "frequencies"}

\* C4: in the waypoint convert_waypoint returns, "landable" is a tag if and
\* only if column 5 of the line marks an airfield or an outlanding field,
\* "airfield" is a tag only with "landable" and only for an airfield, whatever
\* the rules find in the text; the keys icao, runways and frequencies are
\* there exactly when "landable" is a tag.
C4_LandableTag ==
    Converted =>
        LET w == new[1]
            landing == Strip(line)[6] \in {"1", "2"}
        IN  /\ "landable" \in w.classifiers <=> landing
            /\ "landable" \in w.classifiers <=> old[1].is_airfield \/ old[1].is_outlanding
            /\ "airfield" \in w.classifiers => "landable" \in w.classifiers
            /\ "airfield" \in w.classifiers <=> old[1].is_airfield
            /\ "landable" \in w.classifiers => LandableKeys \subseteq DOMAIN w
            /\ "landable" \notin w.classifiers => LandableKeys \cap DOMAIN w = {}

\* a point that is no landing site gets the tags of the rules and nothing of
\* a landing site
C4_Witness ==
    /\ Converted
    /\ "mountain-top" \in new[1].classifiers
    /\ "landable" \notin new[1].classifiers
    /\ "icao" \notin DOMAIN new[1]
    /\ ~old[1].is_airfield
    /\ ~old[1].is_outlanding

\* two directions were decoded and the waypoint has its runways
TwoDirections ==
    /\ Converted
    /\ "runways" \in DOMAIN new[1]
    /\ old[1].runway_directions # None
    /\ Len(old[1].runway_directions[1]) = 2

\* C5: for two decoded directions h0 and h1, when (h0+180) mod 360 is h1 one
\* runway is emitted, with the directions [h0 mod 360, h1]; otherwise two are
\* emitted, with [h0 mod 360, (h0+180) mod 360] and [h1 mod 360, (h1+180) mod 360].
C5_Reciprocal ==
    TwoDirections =>
        LET h0 == old[1].runway_directions[1][1]
            h1 == old[1].runway_directions[1][2]
            runways == new[1].runways
        IN  /\ h0 # h1
            /\ (h0 + 180) % 360 = h1 =>
                   /\ Len(runways) = 1
                   /\ runways[1].directions = Some(<<h0 % 360, h1>>)
            /\ (h0 + 180) % 360 # h1 =>
                   /\ Len(runways) = 2
                   /\ runways[1].directions = Some(<<h0 % 360, (h0 + 180) % 360>>)
                   /\ runways[2].directions = Some(<<h1 % 360, (h1 + 180) % 360>>)

\* the columns 27 and 09 give one runway, although 270 + 180 is above 360
C5_Witness ==
    /\ TwoDirections
    /\ old[1].runway_directions = Some(<<270, 90>>)
    /\ Len(new[1].runways) = 1
    /\ new[1].runways[1].directions = Some(<<270, 90>>)

\* C8 as the specification states it: when a surface, a length or directions
\* were decoded, a runway is emitted and the first runway carries each of
\* them that was decoded, a length of 0 metres included; the list of runways
\* is empty only when all three are unset.
C8_RunwayCarriesDecoded ==
    Converted /\ "runways" \in DOMAIN new[1] =>
        LET o == old[1]
            runways == new[1].runways
            any == o.runway_surface # None \/ o.runway_length # None
                       \/ o.runway_directions # None
        IN  /\ any => Len(runways) >= 1
            /\ ~any => runways = <<>>
            /\ any /\ Len(runways) >= 1 =>
                   /\ runways[1].surface = o.runway_surface
                   /\ runways[1].length = o.runway_length
                   /\ o.runway_directions # None <=> runways[1].directions # None

\* column 23 is no metadata marker
NoMetadata == HasRecord /\ Strip(line)[24] \notin {"#", "*", "?"}

\* C9: when column 23 is none of '#', '*' and '?', the record has no icao, is
\* no ULM site and no glider site, and has no field number, runway surface,
\* runway length, runway directions or frequency.
C9_MetadataGate ==
    NoMetadata =>
        /\ old[1].icao = None
        /\ ~old[1].is_ulm
        /\ ~old[1].is_glidersite
        /\ old[1].field_number = None
        /\ old[1].runway_surface = None
        /\ old[1].runway_length = None
        /\ old[1].runway_directions = None
        /\ old[1].frequency = None

\* a line without a marker whose columns spell GLD and ULM and hold a
\* surface, a length, directions and a frequency
C9_Witness ==
    /\ NoMetadata
    /\ SubSeq(Strip(line), 21, 23) = <<"G", "L", "D">>
    /\ SubSeq(Strip(line), 25, 28) = <<"U", "L", "M", " ">>
    /\ Strip(line)[29] = "A"
    /\ SubSeq(Strip(line), 37, 41) = Frq0

\* the two direction columns parse as digits
DirectionsCase ==
    /\ HasRecord
    /\ \A i \in 33..36 : Strip(line)[i] \in Digits

RECURSIVE Distinct(_)
\* no value occurs twice
Distinct(q) ==
    q = <<>> \/ ((\A i \in 2..Len(q) : q[i] # q[1]) /\ Distinct(Tail(q)))

\* C10 as the specification states it: runway_directions is unset or a list
\* of one or two distinct headings, each within 0..359.
C10_HeadingsBelow360 ==
    DirectionsCase =>
        LET d == old[1].runway_directions
        IN  d = None \/ (/\ Len(d[1]) \in {1, 2}
                         /\ Distinct(d[1])
                         /\ \A i \in 1..Len(d[1]) : d[1][i] \in 0..359)

\* C10 as the code has it: runway_directions is unset or a list of one or
\* two distinct headings, each ten times a column value and so a multiple of
\* 10 within 0..990; the headings are reduced mod 360 by convert_runways only.
C10_HeadingsTenfold ==
    DirectionsCase =>
        LET d == old[1].runway_directions
        IN  d = None \/ (/\ Len(d[1]) \in {1, 2}
                         /\ Distinct(d[1])
                         /\ \A i \in 1..Len(d[1]) :
                                d[1][i] \in 0..990 /\ d[1][i] % 10 = 0)

\* the columns 36 and 99 give the headings 360 and 990
C10_Witness ==
    /\ DirectionsCase
    /\ SubSeq(Strip(line), 33, 36) = <<"3", "6", "9", "9">>
    /\ old[1].runway_directions = Some(<<360, 990>>)

----------------------------------------------------------------------------
(* Iterating a Reader or a Converter over a line source *)

\* the longest file
MaxLines == 3

\* the lines of a file: two records, a blank line, a comment, a record that
\* is cut short and a record whose latitude is out of bounds
FileLines ==
    {Line0 \o <<"\n">>,
     Line1 \o <<"\n">>,
     <<"\n">>,
     <<"$", " ", "W", "E", "L", "T", "2", "0", "0", "0", "\n">>,
     SubSeq(Line0, 1, 60) \o <<"\n">>,
     LineBadLat \o <<"\n">>}

Files == UNION {[1..n -> FileLines] : n \in 0..MaxLines}

\* Python's truth of a dict: it has a key
TruthyDict(d) == DOMAIN d # {}

\* the loop left at the first line that gives no record
ReaderNext_stops_at_skip(lines) ==
    IF lines = <<>> THEN [res |-> "StopIteration", rest |-> <<>>]
    ELSE LET r == decode_waypoint(Head(lines))
         IN  IF r.kind = "raise"
             THEN [res |-> "raise", msg |-> r.msg, rest |-> Tail(lines)]
             ELSE IF r.kind = "ok" /\ TruthyDict(r.wp)
             THEN [res |-> "yield", item |-> r.wp, rest |-> Tail(lines)]
             ELSE [res |-> "StopIteration", rest |-> Tail(lines)]

RECURSIVE ReaderNext(_)
\* One resumption of the generator of Reader.next on the lines not read yet:
\* the loop reads lines until a record is yielded, decode_waypoint raises or
\* the source is exhausted.  rest is what the source still holds.
ReaderNext(lines) ==
    IF lines = <<>> THEN [res |-> "StopIteration", rest |-> <<>>]
    ELSE LET r == decode_waypoint(Head(lines))
         IN  IF r.kind = "raise"
             THEN [res |-> "raise", msg |-> r.msg, rest |-> Tail(lines)]
             ELSE IF r.kind = "ok" /\ TruthyDict(r.wp)
             THEN [res |-> "yield", item |-> r.wp, rest |-> Tail(lines)]
             ELSE ReaderNext(Tail(lines))

RECURSIVE ConverterNext(_)
\* One resumption of the generator of Converter.next, which loops over a
\* Reader of the same source
ConverterNext(lines) ==
    LET r == ReaderNext(lines)
    IN  IF r.res = "yield"
        THEN LET w == convert_waypoint(r.item)
             IN  IF TruthyDict(w)
                 THEN [res |-> "yield", item |-> w, rest |-> r.rest]
                 ELSE ConverterNext(r.rest)
        ELSE r

IterInit ==
    /\ cls \in {"Reader", "Converter"}
    /\ file0 \in Files
    /\ fp = file0
    /\ gen = "none"
    /\ out = <<>>
    /\ last = "none"
    /\ line = <<>>
    /\ pc = "none"
    /\ old = None
    /\ err = None
    /\ new = None

\* __iter__: a new generator over self.fp, which keeps its position
Iter ==
    /\ gen' = "open"
    /\ last' = "iter"
    /\ UNCHANGED <<line, pc, old, err, new, cls, file0, fp, out>>

\* a generator that could be resumed after it raised
NextItem_resumable ==
    /\ gen # "none"
    /\ IF gen = "closed"
       THEN /\ last' = "StopIteration"
            /\ UNCHANGED <<fp, gen, out, err>>
       ELSE \E r \in {IF cls = "Reader" THEN ReaderNext(fp) ELSE ConverterNext(fp)} :
                /\ fp' = r.rest
                /\ last' = r.res
                /\ gen' = IF r.res = "StopIteration" THEN "closed" ELSE "open"
                /\ out' = IF r.res = "yield" THEN Append(out, r.item) ELSE out
                /\ err' = IF r.res = "raise" THEN Some(r.msg) ELSE err
    /\ UNCHANGED <<line, pc, old, new, cls, file0>>

\* The caller asks the generator for its next item.  A generator that has
\* raised or returned is finished and raises StopIteration from then on.
NextItem ==
    /\ gen # "none"
    /\ IF gen = "closed"
       THEN /\ last' = "StopIteration"
            /\ UNCHANGED <<fp, gen, out, err>>
       ELSE \E r \in {IF cls = "Reader" THEN ReaderNext(fp) ELSE ConverterNext(fp)} :
                /\ fp' = r.rest
                /\ last' = r.res
                /\ gen' = IF r.res = "yield" THEN "open" ELSE "closed"
                /\ out' = IF r.res = "yield" THEN Append(out, r.item) ELSE out
                /\ err' = IF r.res = "raise" THEN Some(r.msg) ELSE err
    /\ UNCHANGED <<line, pc, old, new, cls, file0>>

IterNext == Iter \/ NextItem

IterSpec == IterInit /\ [][IterNext]_vars

----------------------------------------------------------------------------
(* Properties of iterating *)

\* the lines the source has given out
Consumed == SubSeq(file0, 1, Len(file0) - Len(fp))

\* the line decodes to a record
IsValid(raw) == decode_waypoint(raw).kind = "ok"

\* the line is a record line that decode_waypoint refuses
Fails(raw) == decode_waypoint(raw).kind = "raise"

\* the record lines among some lines
RecordLines(lines) == SelectSeq(lines, IsRecordLine)

\* what the iterated class makes of a valid record line
ItemOf(raw) ==
    IF cls = "Reader" THEN decode_waypoint(raw).wp
    ELSE convert_waypoint(decode_waypoint(raw).wp)

\* the items of the valid record lines among some lines, in their order
Expected(lines) ==
    LET valid == SelectSeq(lines, LAMBDA raw : IsRecordLine(raw) /\ IsValid(raw))
    IN  [i \in 1..Len(valid) |-> ItemOf(valid[i])]

\* every line of the file that is neither blank nor a comment is a valid record
AllRecordsValid == \A i \in 1..Len(file0) : IsRecordLine(file0[i]) => IsValid(file0[i])

\* C6: over a file whose record lines are all valid the iteration raises
\* nothing and yields one item for each record line it has read, in the
\* order of the lines, the k-th item being the decode of the k-th record
\* line; blank lines and comments give nothing; when the iteration ends the
\* file has been read whole and the items are as many as its record lines.
C6_OnePerRecordLine ==
    AllRecordsValid =>
        /\ last # "raise"
        /\ out = Expected(Consumed)
        /\ Len(out) = Len(RecordLines(Consumed))
        /\ last = "StopIteration" => fp = <<>> /\ Len(out) = Len(RecordLines(file0))

\* a Converter has gone through a file of three lines of which the one in the
\* middle is blank or a comment, and has yielded two waypoints
C6_Witness ==
    /\ cls = "Converter"
    /\ AllRecordsValid
    /\ last = "StopIteration"
    /\ Len(file0) = 3
    /\ ~IsRecordLine(file0[2])
    /\ Len(out) = 2

====
